---- MODULE Spec2Model ----
(***************************************************************************)
(* Model of Opt::parseCmdLine (src/opt-parse.h).                           *)
(*                                                                         *)
(* C strings and std::string values are tuples of one-character strings.   *)
(* std::regex is modelled for the subset of ECMAScript used by the         *)
(* patterns below: literal characters, '.', the class [0-9], the postfix   *)
(* quantifiers '*' and '+' on a single atom, and unnested capture groups.  *)
(* The streams std::cout and std::cerr are sequences of lines.             *)
(***************************************************************************)
EXTENDS Integers, Sequences, FiniteSets, TLC

\* ---- bounds of the model ------------------------------------------------
MaxArgc == 3
MaxOpts == 2

\* ---- string literals of the source --------------------------------------
HelpFlag == <<"-","-","h","e","l","p">>
UsagePrefix == <<"U","s","a","g","e",":"," ">>
UnrecognisedPrefix ==
  <<"U","n","r","e","c","o","g","n","i","s","e","d"," ",
    "o","p","t","i","o","n",":"," ">>
HelpIndent == <<" "," ">>
HelpSep == <<":","\t">>

\* ---- std::regex ----------------------------------------------------------
Digits == {"0","1","2","3","4","5","6","7","8","9"}
LineTerminators == {"\n","\r"}

IsClassAt(p, i) == /\ i + 4 <= Len(p)
                   /\ SubSeq(p, i, i + 4) = <<"[","0","-","9","]">>

QuantAt(p, i) == IF i <= Len(p) /\ p[i] \in {"*","+"} THEN p[i] ELSE "1"

\* std::regex(pattern): the pattern text compiled to a sequence of nodes
RECURSIVE Compile(_, _)
Compile(p, i) ==
  IF i > Len(p) THEN <<>>
  ELSE IF p[i] = "(" THEN <<[t |-> "open", c |-> "", q |-> "1"]>> \o Compile(p, i + 1)
  ELSE IF p[i] = ")" THEN <<[t |-> "close", c |-> "", q |-> "1"]>> \o Compile(p, i + 1)
  ELSE LET cls == IsClassAt(p, i)
           w   == IF cls THEN 5 ELSE 1
           q   == QuantAt(p, i + w)
           t   == IF cls THEN "digit" ELSE IF p[i] = "." THEN "any" ELSE "chr"
           c   == IF t = "chr" THEN p[i] ELSE ""
       IN <<[t |-> t, c |-> c, q |-> q]>>
            \o Compile(p, i + w + (IF q = "1" THEN 0 ELSE 1))

regex(p) == Compile(p, 1)

Accepts(n, ch) ==
  CASE n.t = "chr"   -> ch = n.c
    [] n.t = "any"   -> ch \notin LineTerminators
    [] n.t = "digit" -> ch \in Digits
    [] OTHER         -> FALSE

\* length of the longest run of characters from s[j] that node n accepts
RECURSIVE Run(_, _, _)
Run(n, s, j) == IF j <= Len(s) /\ Accepts(n, s[j]) THEN 1 + Run(n, s, j + 1) ELSE 0

\* Backtracking matcher anchored at both ends.  The result is <<>> when the
\* match fails and <<caps>> (caps the captured sub-matches) when it succeeds.
RECURSIVE MatchFrom(_, _, _, _, _, _)
RECURSIVE Repeat(_, _, _, _, _, _, _, _)
MatchFrom(r, i, s, j, open, caps) ==
  IF i > Len(r) THEN (IF j > Len(s) THEN <<caps>> ELSE <<>>)
  ELSE LET n == r[i] IN
    CASE n.t = "open"  -> MatchFrom(r, i + 1, s, j, j, caps)
      [] n.t = "close" -> MatchFrom(r, i + 1, s, j, 0, Append(caps, SubSeq(s, open, j - 1)))
      [] n.q = "1"     -> IF j <= Len(s) /\ Accepts(n, s[j])
                          THEN MatchFrom(r, i + 1, s, j + 1, open, caps)
                          ELSE <<>>
      [] n.q = "*"     -> Repeat(r, i, s, j, Run(n, s, j), 0, open, caps)
      [] OTHER         -> Repeat(r, i, s, j, Run(n, s, j), 1, open, caps)
\* greedy: try the longest repetition first, then shorter ones down to min
Repeat(r, i, s, j, k, min, open, caps) ==
  IF k < min THEN <<>>
  ELSE LET res == MatchFrom(r, i + 1, s, j + k, open, caps)
       IN IF res # <<>> THEN res ELSE Repeat(r, i, s, j, k - 1, min, open, caps)

\* std::regex_match(s, results, r): the whole of s must match; results[0] is
\* the whole match and results[1..] are the sub-matches
regex_match(s, r) ==
  LET res == MatchFrom(r, 1, s, 1, 0, <<>>)
  IN [matched |-> res # <<>>,
      results |-> IF res # <<>> THEN <<s>> \o res[1] ELSE <<>>]

\* ---- class Opt -----------------------------------------------------------
\* constructor: r_(pattern), help_("  " + pattern + ":\t" + help), h_(handler)
Opt(pattern, help, handler) ==
  [r_    |-> regex(pattern),
   help_ |-> HelpIndent \o pattern \o HelpSep \o help,
   h_    |-> handler]

\* ---- inputs --------------------------------------------------------------
PatServer == <<"-","-","s","=","(",".","*",")">>
PatFlag   == <<"-","-","f","l","a","g">>
PatAny    == <<"-","-",".","*">>
PatWidth  == <<"-","w","(","[","0","-","9","]","+",")">>

Descriptors ==
  { Opt(PatServer, <<"s","r","v">>, "setServer"),
    Opt(PatFlag,   <<"f","l","g">>, "setFlag"),
    Opt(PatAny,    <<"a","n","y">>, "setAny"),
    Opt(PatWidth,  <<"w","d","t">>, "setWidth") }

Tokens ==
  { HelpFlag,
    <<"-","-","f","l","a","g">>,
    <<"-","-","s","=","h">>,
    <<"-","w","1","2">>,
    <<"b","o","g","u","s">> }

ProgNames == { <<"o","p","t">>, HelpFlag }

RECURSIVE SeqsOfLen(_, _)
SeqsOfLen(S, n) ==
  IF n = 0 THEN {<<>>}
  ELSE {Append(s, x) : s \in SeqsOfLen(S, n - 1), x \in S}

SeqsUpTo(S, n) == UNION {SeqsOfLen(S, m) : m \in 0..n}

\* argument vectors: argc = 0 (no program name) or a program name followed
\* by up to MaxArgc - 1 tokens
ArgVectors ==
  {<<>>} \cup {<<p>> \o ts : p \in ProgNames, ts \in SeqsUpTo(Tokens, MaxArgc - 1)}

OptTables == SeqsUpTo(Descriptors, MaxOpts)

\* ---- state ---------------------------------------------------------------
VARIABLES argv, opts, pc, argi, showUsage, found, next, it, ret,
          cout, cerr, calls, compared, tested

vars == <<argv, opts, pc, argi, showUsage, found, next, it, ret,
          cout, cerr, calls, compared, tested>>

argc == Len(argv)
\* argv[i] of the C code (0-based)
Arg(i) == argv[i + 1]

Init ==
  /\ argv \in ArgVectors
  /\ opts \in OptTables
  /\ pc = "entry"
  /\ argi = 0
  /\ showUsage = FALSE
  /\ found = FALSE
  /\ next = 1
  /\ it = 1
  /\ ret = FALSE
  /\ cout = <<>>
  /\ cerr = <<>>
  /\ calls = <<>>
  /\ compared = <<>>
  /\ tested = <<>>

\* ---- parseCmdLine --------------------------------------------------------
\* faulty variant: the loop starts at argv[0]
Enter_fromZero ==
  /\ pc = "entry"
  /\ showUsage' = FALSE
  /\ argi' = 0
  /\ pc' = "for"
  /\ UNCHANGED <<argv, opts, found, next, it, ret, cout, cerr, calls, compared, tested>>

\* bool showUsage = false; for( int argi = 1; ...
Enter ==
  /\ pc = "entry"
  /\ showUsage' = FALSE
  /\ argi' = 1
  /\ pc' = "for"
  /\ UNCHANGED <<argv, opts, found, next, it, ret, cout, cerr, calls, compared, tested>>

\* for( ...; argi < argc; ... )
ForTest ==
  /\ pc = "for"
  /\ pc' = IF argi < argc THEN "strcmp" ELSE "usage"
  /\ UNCHANGED <<argv, opts, argi, showUsage, found, next, it, ret, cout, cerr,
                 calls, compared, tested>>

\* faulty variant: the else is missing, a "--help" token is also scanned
StrcmpHelp_fallThrough ==
  /\ pc = "strcmp"
  /\ compared' = Append(compared, argi)
  /\ showUsage' = IF Arg(argi) = HelpFlag THEN TRUE ELSE showUsage
  /\ found' = FALSE
  /\ next' = 1
  /\ pc' = "while"
  /\ UNCHANGED <<argv, opts, argi, it, ret, cout, cerr, calls, tested>>

\* faulty variant: a "--help" token does not request usage
StrcmpHelp_noUsage ==
  /\ pc = "strcmp"
  /\ compared' = Append(compared, argi)
  /\ IF Arg(argi) = HelpFlag
     THEN /\ pc' = "incr"
          /\ UNCHANGED <<showUsage, found, next>>
     ELSE /\ found' = FALSE
          /\ next' = 1
          /\ pc' = "while"
          /\ UNCHANGED showUsage
  /\ UNCHANGED <<argv, opts, argi, it, ret, cout, cerr, calls, tested>>

\* if( strcmp(argv[argi], "--help") == 0 ) showUsage = true;
\* else { bool found = false; auto next = opts.begin(); ...
StrcmpHelp ==
  /\ pc = "strcmp"
  /\ compared' = Append(compared, argi)
  /\ IF Arg(argi) = HelpFlag
     THEN /\ showUsage' = TRUE
          /\ pc' = "incr"
          /\ UNCHANGED <<found, next>>
     ELSE /\ found' = FALSE
          /\ next' = 1
          /\ pc' = "while"
          /\ UNCHANGED showUsage
  /\ UNCHANGED <<argv, opts, argi, it, ret, cout, cerr, calls, tested>>

\* while( !found && next != opts.end() )
WhileTest ==
  /\ pc = "while"
  /\ pc' = IF ~found /\ next # Len(opts) + 1 THEN "match" ELSE "iffound"
  /\ UNCHANGED <<argv, opts, argi, showUsage, found, next, it, ret, cout, cerr,
                 calls, compared, tested>>

\* faulty variant: the scan does not stop at the first match
RegexMatch_scanAll ==
  /\ pc = "match"
  /\ tested' = Append(tested, <<argi, next>>)
  /\ LET rm == regex_match(Arg(argi), opts[next].r_) IN
       IF rm.matched
       THEN /\ calls' = Append(calls, [h |-> opts[next].h_, opt |-> next,
                                        argi |-> argi, m |-> rm.results])
            /\ found' = (next = Len(opts))
            /\ next' = IF next = Len(opts) THEN next ELSE next + 1
       ELSE /\ next' = next + 1
            /\ UNCHANGED <<found, calls>>
  /\ pc' = "while"
  /\ UNCHANGED <<argv, opts, argi, showUsage, it, ret, cout, cerr, compared>>

\* faulty variant: the handler of the matching descriptor is not invoked
RegexMatch_noCall ==
  /\ pc = "match"
  /\ tested' = Append(tested, <<argi, next>>)
  /\ LET rm == regex_match(Arg(argi), opts[next].r_) IN
       IF rm.matched
       THEN /\ found' = TRUE
            /\ UNCHANGED <<next, calls>>
       ELSE /\ next' = next + 1
            /\ UNCHANGED <<found, calls>>
  /\ pc' = "while"
  /\ UNCHANGED <<argv, opts, argi, showUsage, it, ret, cout, cerr, compared>>

\* std::cmatch results;
\* if( std::regex_match(argv[argi], results, next->r_) )
\*   { found = true; next->h_(results); } else { next++; }
RegexMatch ==
  /\ pc = "match"
  /\ tested' = Append(tested, <<argi, next>>)
  /\ LET rm == regex_match(Arg(argi), opts[next].r_) IN
       IF rm.matched
       THEN /\ found' = TRUE
            /\ calls' = Append(calls, [h |-> opts[next].h_, opt |-> next,
                                        argi |-> argi, m |-> rm.results])
            /\ UNCHANGED next
       ELSE /\ next' = next + 1
            /\ UNCHANGED <<found, calls>>
  /\ pc' = "while"
  /\ UNCHANGED <<argv, opts, argi, showUsage, it, ret, cout, cerr, compared>>

\* faulty variant: an unmatched token does not request usage
NotFound_noUsage ==
  /\ pc = "iffound"
  /\ IF ~found
     THEN /\ cerr' = Append(cerr, UnrecognisedPrefix \o Arg(argi))
          /\ UNCHANGED showUsage
     ELSE UNCHANGED <<cerr, showUsage>>
  /\ pc' = "incr"
  /\ UNCHANGED <<argv, opts, argi, found, next, it, ret, cout, calls, compared, tested>>

\* faulty variant: an unmatched token is not reported on std::cerr
NotFound_silent ==
  /\ pc = "iffound"
  /\ IF ~found
     THEN /\ showUsage' = TRUE
          /\ UNCHANGED cerr
     ELSE UNCHANGED <<cerr, showUsage>>
  /\ pc' = "incr"
  /\ UNCHANGED <<argv, opts, argi, found, next, it, ret, cout, calls, compared, tested>>

\* faulty variant: the first unmatched token ends the loop
NotFound_break ==
  /\ pc = "iffound"
  /\ IF ~found
     THEN /\ cerr' = Append(cerr, UnrecognisedPrefix \o Arg(argi))
          /\ showUsage' = TRUE
          /\ pc' = "usage"
     ELSE /\ pc' = "incr"
          /\ UNCHANGED <<cerr, showUsage>>
  /\ UNCHANGED <<argv, opts, argi, found, next, it, ret, cout, calls, compared, tested>>

\* if( !found ) { std::cerr << "Unrecognised option: " << argv[argi] << std::endl;
\*                showUsage = true; }
NotFound ==
  /\ pc = "iffound"
  /\ IF ~found
     THEN /\ cerr' = Append(cerr, UnrecognisedPrefix \o Arg(argi))
          /\ showUsage' = TRUE
     ELSE UNCHANGED <<cerr, showUsage>>
  /\ pc' = "incr"
  /\ UNCHANGED <<argv, opts, argi, found, next, it, ret, cout, calls, compared, tested>>

\* faulty variant: the loop advances by two
Incr_skip ==
  /\ pc = "incr"
  /\ argi' = argi + 2
  /\ pc' = "for"
  /\ UNCHANGED <<argv, opts, showUsage, found, next, it, ret, cout, cerr, calls,
                 compared, tested>>

\* for( ...; ...; argi++ )
Incr ==
  /\ pc = "incr"
  /\ argi' = argi + 1
  /\ pc' = "for"
  /\ UNCHANGED <<argv, opts, showUsage, found, next, it, ret, cout, cerr, calls,
                 compared, tested>>

\* faulty variant: usage is printed whatever showUsage is
UsageTest_always ==
  /\ pc = "usage"
  /\ argc > 0
  /\ cout' = Append(cout, UsagePrefix \o Arg(0))
  /\ it' = 1
  /\ pc' = "help"
  /\ UNCHANGED <<argv, opts, argi, showUsage, found, next, ret, cerr, calls,
                 compared, tested>>

\* if( showUsage ) { std::cout << "Usage: " << argv[0] << std::endl; ...
UsageTest ==
  /\ pc = "usage"
  /\ IF showUsage
     THEN /\ cout' = Append(cout, UsagePrefix \o Arg(0))
          /\ it' = 1
          /\ pc' = "help"
     ELSE /\ pc' = "return"
          /\ UNCHANGED <<cout, it>>
  /\ UNCHANGED <<argv, opts, argi, showUsage, found, next, ret, cerr, calls,
                 compared, tested>>

\* for( auto& opt : opts ) std::cout << opt.help_ << std::endl;
\* std::cout << std::endl;
HelpLine ==
  /\ pc = "help"
  /\ IF it <= Len(opts)
     THEN /\ cout' = Append(cout, opts[it].help_)
          /\ it' = it + 1
          /\ pc' = "help"
     ELSE /\ cout' = Append(cout, <<>>)
          /\ pc' = "return"
          /\ UNCHANGED it
  /\ UNCHANGED <<argv, opts, argi, showUsage, found, next, ret, cerr, calls,
                 compared, tested>>

\* return !showUsage;
Return ==
  /\ pc = "return"
  /\ ret' = ~showUsage
  /\ pc' = "done"
  /\ UNCHANGED <<argv, opts, argi, showUsage, found, next, it, cout, cerr, calls,
                 compared, tested>>

Next ==
  \/ Enter
  \/ ForTest
  \/ StrcmpHelp
  \/ WhileTest
  \/ RegexMatch
  \/ NotFound
  \/ Incr
  \/ UsageTest
  \/ HelpLine
  \/ Return

Spec == Init /\ [][Next]_vars

\* the function runs to completion once called: no suspension points
FairSpec == Spec /\ WF_vars(Next)

TypeOK ==
  /\ argv \in ArgVectors
  /\ opts \in OptTables
  /\ pc \in {"entry", "for", "strcmp", "while", "match", "iffound", "incr",
             "usage", "help", "return", "done"}
  /\ argi \in 0..(MaxArgc + 1)
  /\ showUsage \in BOOLEAN /\ found \in BOOLEAN /\ ret \in BOOLEAN
  /\ next \in 1..(MaxOpts + 1)
  /\ it \in 1..(MaxOpts + 1)

\* ---- vocabulary of the properties ----------------------------------------
Done == pc = "done"
PastLoop == pc \in {"help", "return", "done"}

\* indices of the tokens argv[1..argc-1]
TokenIdx == 1..(argc - 1)

Matches(t, d) == regex_match(t, d.r_).matched

\* table indices of the descriptors whose pattern fully matches token i
Matching(i) == {k \in 1..Len(opts) : Matches(Arg(i), opts[k])}

FirstMatch(i) == CHOOSE k \in Matching(i) : \A l \in Matching(i) : k <= l

IsHelp(i) == Arg(i) = HelpFlag
\* token i is handed to a handler: not "--help" and matched by some descriptor
Handled(i) == ~IsHelp(i) /\ Matching(i) # {}
\* token i is rejected by the table scan: not "--help" and matched by nothing
Unmatched(i) == ~IsHelp(i) /\ Matching(i) = {}

CallsOf(i) == {n \in 1..Len(calls) : calls[n].argi = i}
TestsOf(i) == {n \in 1..Len(tested) : tested[n][1] = i}

UsageListing ==
  <<UsagePrefix \o Arg(0)>> \o [k \in 1..Len(opts) |-> opts[k].help_] \o << <<>> >>

\* the diagnostics for those of the tokens i..argc-1 whose index is in S
RECURSIVE Diagnostics(_, _)
Diagnostics(i, S) ==
  IF i >= argc THEN <<>>
  ELSE (IF i \in S THEN <<UnrecognisedPrefix \o Arg(i)>> ELSE <<>>)
        \o Diagnostics(i + 1, S)

MatchesNothing(i) == Matching(i) = {}

\* ---- C1 -------------------------------------------------------------------
\* C1: parseCmdLine returns true if and only if every token argv[1..argc-1]
\* is fully matched by at least one descriptor's pattern and no token is the
\* literal "--help"; otherwise it returns false.
C1_ReturnIffAllMatched ==
  Done => (ret <=> \A i \in TokenIdx : ~IsHelp(i) /\ Matching(i) # {})

C1_Witness == Done /\ ret /\ argc >= 3 /\ Len(opts) >= 2

\* ---- C2 -------------------------------------------------------------------
\* C2: first match wins.  For every token that is not "--help" and is matched
\* by some descriptor, only the lowest-index matching descriptor's action is
\* invoked, exactly once once the token has been processed, and no
\* descriptor after the first match is tested.
C2_FirstMatchWins ==
  \A i \in TokenIdx :
    Handled(i) =>
      /\ \A n \in CallsOf(i) : /\ calls[n].opt = FirstMatch(i)
                               /\ calls[n].h = opts[FirstMatch(i)].h_
      /\ Cardinality(CallsOf(i)) <= 1
      /\ argi > i => Cardinality(CallsOf(i)) = 1
      /\ \A n \in TestsOf(i) : tested[n][2] <= FirstMatch(i)

C2_Witness ==
  Done /\ \E i \in TokenIdx :
            /\ Handled(i)
            /\ Cardinality(Matching(i)) >= 2
            /\ Cardinality(CallsOf(i)) = 1

\* ---- C3 -------------------------------------------------------------------
\* C3: whenever some token is "--help", the call returns false and the usage
\* listing is printed, whatever the other tokens and the table are.
C3_HelpForcesUsage ==
  (Done /\ \E i \in TokenIdx : IsHelp(i)) => (ret = FALSE /\ cout = UsageListing)

C3_Witness ==
  /\ Done /\ argc >= 3
  /\ IsHelp(1) /\ Matching(1) # {}
  /\ \A i \in TokenIdx : i # 1 => Handled(i)
  /\ ret = FALSE

\* ---- C4 -------------------------------------------------------------------
\* C4 as stated: if some token matches no descriptor pattern, the call
\* returns false, emits one "Unrecognised option: <token>" diagnostic per
\* token that matches no pattern, in argument order, and prints the usage
\* listing exactly once, at the end.
C4_Original ==
  (\E i \in TokenIdx : MatchesNothing(i)) =>
    /\ Done => /\ ret = FALSE
               /\ cerr = Diagnostics(1, {i \in TokenIdx : MatchesNothing(i)})
               /\ cout = UsageListing
    /\ ~PastLoop => cout = <<>>

\* C4 (amended): if some token other than "--help" matches no descriptor
\* pattern, the call returns false, emits one "Unrecognised option: <token>"
\* diagnostic per such token, in argument order (a "--help" token gets no
\* diagnostic), and prints the usage listing exactly once, at the end.
C4_UnmatchedDiagnosed ==
  (\E i \in TokenIdx : Unmatched(i)) =>
    /\ Done => /\ ret = FALSE
               /\ cerr = Diagnostics(1, {i \in TokenIdx : Unmatched(i)})
               /\ cout = UsageListing
    /\ ~PastLoop => cout = <<>>

C4_Witness ==
  /\ Done /\ argc >= 3
  /\ Unmatched(1) /\ Unmatched(2)
  /\ Len(cerr) = 2
  /\ Len(cout) = Len(opts) + 2

\* ---- C5 -------------------------------------------------------------------
\* the handler invocations are one per token, in argument order, each the
\* first matching descriptor's handler, receiving the token as match 0
OneCallPerToken ==
  /\ Len(calls) = argc - 1
  /\ \A n \in 1..Len(calls) :
       /\ calls[n].argi = n
       /\ calls[n].opt = FirstMatch(n)
       /\ calls[n].h = opts[FirstMatch(n)].h_
       /\ calls[n].m[1] = Arg(n)

\* C5 as stated: if every token matches some descriptor pattern, the call
\* returns true and there is exactly one handler invocation per token, in
\* argument order.
C5_Original ==
  (Done /\ argc >= 1 /\ \A i \in TokenIdx : Matching(i) # {}) =>
    (ret = TRUE /\ OneCallPerToken)

\* C5 (amended): if every token matches some descriptor pattern and none is
\* the literal "--help", the call returns true and there is exactly one
\* handler invocation per token, in argument order.
C5_AllMatchedInOrder ==
  (Done /\ argc >= 1 /\ \A i \in TokenIdx : Handled(i)) =>
    (ret = TRUE /\ OneCallPerToken)

C5_Witness ==
  /\ Done /\ argc >= 3
  /\ \A i \in TokenIdx : Handled(i)
  /\ FirstMatch(1) # FirstMatch(2)
  /\ Len(calls) = argc - 1

\* ---- C6 -------------------------------------------------------------------
\* C6: an unmatched token or a "--help" token does not stop parsing.  Every
\* token is still visited, every token that matches (and is not "--help")
\* has its handler invoked, and the failure (usage, return value) is
\* produced only after the last token.
C6_ParsingContinues ==
  (\E j \in TokenIdx : ~Handled(j)) =>
    /\ Done => /\ ret = FALSE
               /\ compared = [n \in 1..(argc - 1) |-> n]
               /\ \A i \in TokenIdx : Handled(i) => CallsOf(i) # {}
    /\ (cout # <<>> \/ pc \in {"usage", "help", "return", "done"}) => argi >= argc

C6_Witness ==
  /\ Done /\ argc >= 3
  /\ Unmatched(1)
  /\ Handled(2) /\ CallsOf(2) # {}
  /\ ret = FALSE

\* ---- C7 -------------------------------------------------------------------
\* C7: a token equal to "--help" is never tested against a descriptor and
\* never reaches a handler, even if a pattern would match it; it gets no
\* "Unrecognised option" diagnostic; for the input ["--help"] no handler is
\* invoked and no diagnostic is emitted.
C7_HelpNeverMatched ==
  /\ \A n \in 1..Len(tested) : ~IsHelp(tested[n][1])
  /\ \A n \in 1..Len(calls) : ~IsHelp(calls[n].argi) /\ calls[n].m[1] # HelpFlag
  /\ \A n \in 1..Len(cerr) : cerr[n] # UnrecognisedPrefix \o HelpFlag
  /\ (argc = 2 /\ IsHelp(1)) => (calls = <<>> /\ cerr = <<>>)

C7_Witness ==
  Done /\ argc = 2 /\ IsHelp(1) /\ Matching(1) # {} /\ ret = FALSE

\* ---- C8 -------------------------------------------------------------------
\* C8: the usage listing is printed exactly when the call returns false, and
\* only after all tokens have been processed (all handler invocations and
\* diagnostics are already made); it is the banner "Usage: <argv[0]>", one
\* help line per descriptor in table order, then an empty line.
C8_UsageIffFalse ==
  /\ Done => /\ (ret = FALSE) <=> (argc >= 1 /\ cout = UsageListing)
             /\ (ret = TRUE) <=> (cout = <<>>)
  /\ cout # <<>> =>
       /\ PastLoop /\ argi >= argc
       /\ Len(calls) = Cardinality({i \in TokenIdx : Handled(i)})
       /\ Len(cerr) = Cardinality({i \in TokenIdx : Unmatched(i)})
       /\ \A n \in 1..Len(cout) : cout[n] = UsageListing[n]

C8_Witness ==
  /\ Done /\ ret = FALSE
  /\ Len(opts) >= 2
  /\ calls # <<>> /\ cerr # <<>>
  /\ cout = UsageListing

\* ---- C9 -------------------------------------------------------------------
\* each token is visited once and in order; each descriptor is tested at
\* most once per token, only after all earlier descriptors failed to match;
\* once a token is processed its scan covered the table up to the first
\* match or, without a match, the whole table
SinglePass ==
  /\ \A n \in 1..Len(compared) : compared[n] = n
  /\ Len(compared) <= argc - 1 \/ compared = <<>>
  /\ Done => Len(compared) = (IF argc = 0 THEN 0 ELSE argc - 1)
  /\ \A m, n \in 1..Len(tested) : m # n => tested[m] # tested[n]
  /\ \A n \in 1..Len(tested) :
       /\ tested[n][2] \in 1..Len(opts)
       /\ \A k \in 1..(tested[n][2] - 1) : k \notin Matching(tested[n][1])
  /\ \A i \in TokenIdx :
       (argi > i /\ ~IsHelp(i)) =>
         {tested[n][2] : n \in TestsOf(i)} =
            1..(IF Matching(i) # {} THEN FirstMatch(i) ELSE Len(opts))

\* C9: parseCmdLine always terminates; each token is visited exactly once
\* and the table scan for a token tests each descriptor at most once and
\* stops at the first match or at the end of the table.
C9_Terminates == <>Done /\ []SinglePass

C9_Witness ==
  /\ Done /\ argc >= 3 /\ Len(opts) >= 2
  /\ Unmatched(1) /\ Handled(2)
  /\ Len(tested) > Len(opts)

\* ---- C10 ------------------------------------------------------------------
\* C10: argv[0] is never compared with "--help" and never matched against a
\* descriptor; with argc <= 1 the call returns true, invokes no handler and
\* prints neither usage nor a diagnostic, for every table.
C10_ProgNameNotToken ==
  /\ \A n \in 1..Len(compared) : compared[n] >= 1
  /\ \A n \in 1..Len(tested) : tested[n][1] >= 1
  /\ \A n \in 1..Len(calls) : calls[n].argi >= 1
  /\ (Done /\ argc <= 1) =>
       (ret = TRUE /\ calls = <<>> /\ cout = <<>> /\ cerr = <<>>)

C10_Witness ==
  /\ Done /\ argc = 1
  /\ Arg(0) = HelpFlag
  /\ \E k \in 1..Len(opts) : Matches(Arg(0), opts[k])
  /\ ret = TRUE
====
